---- MODULE Spec2Model ----
(***************************************************************************)
(* dagster/_utils/backcompat.py: the renamed-parameter resolver, the two   *)
(* warning helpers and the quiet_experimental_warnings scope, together     *)
(* with the part of the `warnings` module they drive (the filter list, the *)
(* once-per-location registry and catch_warnings, as in CPython 3.11).     *)
(*                                                                         *)
(* A filter list is an object: catch_warnings keeps a reference to the     *)
(* list installed at entry and installs a copy, and filterwarnings changes *)
(* in place whichever list warnings.filters names when it runs.  Every     *)
(* change of the filters clears the registry (_filters_mutated).  Each     *)
(* message is emitted from one place, so the registry key (text, category, *)
(* lineno) is modelled by (text, category).                                *)
(*                                                                         *)
(* Python values are modelled as follows.  Optional[X] is a tuple of       *)
(* length 0 (None) or 1 (a present value); str is a TLA+ string; the       *)
(* values handed to normalize_renamed_param are the literals of PyValues,  *)
(* written as their repr.                                                  *)
(***************************************************************************)
EXTENDS Integers, Sequences, FiniteSets, TLC

VARIABLES
    lists,           \* the filter list objects: id -> list of filter items
    module_filters,  \* warnings.filters: the id of the list now installed
    registry,        \* __warningregistry__: keys already shown since the filters last changed
    sink,            \* the diagnostics delivered so far (showwarning), as a set
    frames,          \* per thread, the open wrapped invocations, outermost first
    last,            \* the operation that ran last, with its inputs and outcome
    host_calls       \* how often the host or a body has changed the filters itself

vars == <<lists, module_filters, registry, sink, frames, last, host_calls>>

-----------------------------------------------------------------------------
\* Bounds of the model.

MaxDepth == 2        \* nesting depth of wrapped invocations per thread
MaxHostCalls == 2    \* calls of filterwarnings/resetwarnings by the host or a body over a run
MaxDepthMT == 1      \* nesting depth per thread in the multi-threaded specification
NumThreads == 2      \* threads of the multi-threaded specification

-----------------------------------------------------------------------------
\* Python values.

None == <<>>
Some(v) == <<v>>

PyValues == {"0", "False", "True"}

Truthy(v) == v \notin {"0", "False", "''"}

\* `lambda val: not val`, the coercion of the docstring
negate(v) == IF Truthy(v) THEN "False" ELSE "True"

Coercers == {"negate"}

ApplyCoercer(f, v) == IF f = "negate" THEN negate(v) ELSE v

ArgNames == {<<"new_flag", "old_flag">>, <<"solid", "op">>}

-----------------------------------------------------------------------------
\* normalize_renamed_param

ConflictMessage(new_arg, old_arg) ==
    "Do not use deprecated \"" \o old_arg \o "\" now that you are using \""
        \o new_arg \o "\"."

\* faulty variant: the values are tested for truth instead of `is not None`
Mut_normalize_truthiness(new_val, new_arg, old_val, old_arg, coerce_old_to_new) ==
    LET newSet == new_val # None /\ Truthy(new_val[1])
        oldSet == old_val # None /\ Truthy(old_val[1])
    IN  IF newSet /\ oldSet
        THEN [raised |-> TRUE, message |-> ConflictMessage(new_arg, old_arg),
              result |-> None, applied |-> 0, warned |-> <<>>]
        ELSE IF oldSet
        THEN IF coerce_old_to_new # None
             THEN [raised |-> FALSE, message |-> "",
                   result |-> Some(ApplyCoercer(coerce_old_to_new[1], old_val[1])),
                   applied |-> 1, warned |-> <<>>]
             ELSE [raised |-> FALSE, message |-> "", result |-> old_val,
                   applied |-> 0, warned |-> <<>>]
        ELSE [raised |-> FALSE, message |-> "", result |-> new_val,
              applied |-> 0, warned |-> <<>>]

\* faulty variant: the coercion is applied to whichever value is returned
Mut_normalize_coerces_new(new_val, new_arg, old_val, old_arg, coerce_old_to_new) ==
    LET coerced(v) == IF coerce_old_to_new # None /\ v # None
                      THEN Some(ApplyCoercer(coerce_old_to_new[1], v[1])) ELSE v
    IN  IF new_val # None /\ old_val # None
        THEN [raised |-> TRUE, message |-> ConflictMessage(new_arg, old_arg),
              result |-> None, applied |-> 0, warned |-> <<>>]
        ELSE IF old_val # None
        THEN [raised |-> FALSE, message |-> "", result |-> coerced(old_val),
              applied |-> IF coerce_old_to_new # None THEN 1 ELSE 0,
              warned |-> <<>>]
        ELSE [raised |-> FALSE, message |-> "", result |-> coerced(new_val),
              applied |-> IF coerce_old_to_new # None /\ new_val # None THEN 1 ELSE 0,
              warned |-> <<>>]

\* faulty variant: the old parameter alone triggers a deprecation warning
Mut_normalize_warns(new_val, new_arg, old_val, old_arg, coerce_old_to_new) ==
    IF new_val # None /\ old_val # None
    THEN [raised |-> TRUE, message |-> ConflictMessage(new_arg, old_arg),
          result |-> None, applied |-> 0, warned |-> <<>>]
    ELSE IF old_val # None
    THEN [raised |-> FALSE, message |-> "",
          result |-> IF coerce_old_to_new # None
                     THEN Some(ApplyCoercer(coerce_old_to_new[1], old_val[1]))
                     ELSE old_val,
          applied |-> IF coerce_old_to_new # None THEN 1 ELSE 0,
          warned |-> <<[category |-> "DeprecationWarning",
                        message |-> old_arg \o " is deprecated."]>>]
    ELSE [raised |-> FALSE, message |-> "", result |-> new_val,
          applied |-> 0, warned |-> <<>>]

\* The outcome of one call: whether check.failed raised and with what message,
\* the value returned (None too when nothing is returned), how often the
\* coercion was applied, and the diagnostics handed to warnings.warn (none).
\* new_arg and old_arg are strings and the coercion is None or a function, so
\* the parameter checks of lines 45-47 pass.
normalize_renamed_param(new_val, new_arg, old_val, old_arg, coerce_old_to_new) ==
    IF new_val # None /\ old_val # None
    THEN [raised |-> TRUE, message |-> ConflictMessage(new_arg, old_arg),
          result |-> None, applied |-> 0, warned |-> <<>>]
    ELSE IF old_val # None
    THEN IF coerce_old_to_new # None
         THEN [raised |-> FALSE, message |-> "",
               result |-> Some(ApplyCoercer(coerce_old_to_new[1], old_val[1])),
               applied |-> 1, warned |-> <<>>]
         ELSE [raised |-> FALSE, message |-> "", result |-> old_val,
               applied |-> 0, warned |-> <<>>]
    ELSE [raised |-> FALSE, message |-> "", result |-> new_val,
          applied |-> 0, warned |-> <<>>]

-----------------------------------------------------------------------------
\* The messages of the two warning helpers.

Subjects == {"Foo", "Baz"}
Versions == {"2.0"}
AdditionalTexts == {None, Some(""), Some("Use Bar.")}

\* truthiness of an Optional[str]: None and "" are both falsy
HasText(t) == t # None /\ t[1] # ""

\* faulty variant: the text is tested with `is not None`
Mut_DeprecationMessage(subject, breaking_version, additional_warn_text) ==
    subject \o " is deprecated and will be removed in " \o breaking_version \o "."
        \o (IF additional_warn_text # None
            THEN " " \o additional_warn_text[1] ELSE "")

DeprecationMessage(subject, breaking_version, additional_warn_text) ==
    subject \o " is deprecated and will be removed in " \o breaking_version \o "."
        \o (IF HasText(additional_warn_text)
            THEN " " \o additional_warn_text[1] ELSE "")

EXPERIMENTAL_WARNING_HELP ==
    "To mute warnings for experimental functionality, invoke"
        \o " warnings.filterwarnings(\"ignore\", category=dagster.ExperimentalWarning) or use"
        \o " one of the other methods described at"
        \o " https://docs.python.org/3/library/warnings.html#describing-warning-filters."

ExperimentalMessage(subject, additional_warn_text) ==
    subject \o " is experimental. It may break in future versions, even between dot"
        \o " releases."
        \o (IF HasText(additional_warn_text)
            THEN " " \o additional_warn_text[1] ELSE "")
        \o " " \o EXPERIMENTAL_WARNING_HELP

-----------------------------------------------------------------------------
\* The warnings module, as far as the helpers drive it.

DeprecationWarning == "DeprecationWarning"
ExperimentalWarning == "ExperimentalWarning"
Warning == "Warning"

\* warnings.defaultaction: what applies when no filter matches
defaultaction == "default"

Filter(action, category) == [action |-> action, category |-> category]

IgnoreExperimental == Filter("ignore", ExperimentalWarning)

\* faulty variant: a filter matches every category
Mut_issubclass_any(category, base) == TRUE

\* class ExperimentalWarning(Warning): a filter on `base` matches `category`
issubclass(category, base) == base = Warning \/ category = base

\* faulty variant: append=True, the item goes to the end
Mut_filterwarnings_append(fl, action, category) ==
    IF \E i \in 1..Len(fl) : fl[i] = Filter(action, category)
    THEN fl
    ELSE fl \o <<Filter(action, category)>>

\* warnings.filterwarnings(action, category=category): append=False, so the item
\* goes to the front, an equal item already in the list being removed first
filterwarnings(fl, action, category) ==
    <<Filter(action, category)>>
        \o SelectSeq(fl, LAMBDA x : x # Filter(action, category))

\* faulty variant: the last matching filter decides
RECURSIVE Mut_ActionFor_last(_, _)
Mut_ActionFor_last(fl, category) ==
    IF fl = <<>> THEN defaultaction
    ELSE IF issubclass(category, fl[Len(fl)].category) THEN fl[Len(fl)].action
    ELSE Mut_ActionFor_last(SubSeq(fl, 1, Len(fl) - 1), category)

\* the action of the first filter that matches, else the default action
RECURSIVE ActionFor(_, _)
ActionFor(fl, category) ==
    IF fl = <<>> THEN defaultaction
    ELSE IF issubclass(category, Head(fl).category) THEN Head(fl).action
    ELSE ActionFor(Tail(fl), category)

\* the list warnings.filters names now
Filters == lists[module_filters]

\* warnings.warn(message, category) under the filters now installed:
\* "repeat" when the registry already holds the key (the quick test, before
\* the filters are searched), "ignored", "raised" (the action "error" raises
\* the warning to the caller), or "shown" (handed to showwarning).
WarnOutcome(category, message) ==
    IF <<message, category>> \in registry THEN "repeat"
    ELSE LET action == ActionFor(Filters, category)
         IN  IF action = "ignore" THEN "ignored"
             ELSE IF action = "error" THEN "raised"
             ELSE "shown"

\* the registry after the call: the action "default" records the key
WarnRegistry(category, message) ==
    IF WarnOutcome(category, message) = "shown"
       /\ ActionFor(Filters, category) = "default"
    THEN registry \cup {<<message, category>>}
    ELSE registry

WarnSink(category, message) ==
    IF WarnOutcome(category, message) = "shown"
    THEN sink \cup {[category |-> category, message |-> message]}
    ELSE sink

-----------------------------------------------------------------------------
\* Threads and their open invocations.

Threads == DOMAIN frames

\* one list at start, one kept by each open scope, one for the copy being made
ListIds == 0..(NumThreads * MaxDepth + 1)

\* a thread runs host code or a body: it is not inside __enter__
Running(t) ==
    IF frames[t] = <<>> THEN TRUE ELSE frames[t][Len(frames[t])].pc = "body"

InBody(t) ==
    IF frames[t] = <<>> THEN FALSE ELSE frames[t][Len(frames[t])].pc = "body"

\* the top frame of thread t is at position pc of __enter__
Entering(t, pc) ==
    IF frames[t] = <<>> THEN FALSE ELSE frames[t][Len(frames[t])].pc = pc

Top(t) == frames[t][Len(frames[t])]

SetTop(t, f) == [frames EXCEPT ![t] = [@ EXCEPT ![Len(@)] = f]]

\* the lists something still refers to, given the module attribute and the stacks
Live(mf, fr) ==
    {mf} \cup UNION {{fr[t][i].saved : i \in 1..Len(fr[t])} : t \in DOMAIN fr}

\* a list nothing refers to any more is dropped
Collect(ls, mf, fr) == [i \in ListIds |-> IF i \in Live(mf, fr) THEN ls[i] ELSE <<>>]

FreshId == CHOOSE i \in ListIds :
    /\ i \notin Live(module_filters, frames)
    /\ \A j \in ListIds : j \notin Live(module_filters, frames) => i <= j

\* the innermost open invocation of every thread has seen the filters
\* changed under it
Touched == [t \in Threads |->
    [i \in 1..Len(frames[t]) |->
        IF i = Len(frames[t]) THEN [frames[t][i] EXCEPT !.dirty = TRUE]
        ELSE frames[t][i]]]

-----------------------------------------------------------------------------
\* The state at process start.

FiltersAtStart == <<>>

InitFor(threads) ==
    /\ lists = [i \in ListIds |-> FiltersAtStart]
    /\ module_filters = 0
    /\ registry = {}
    /\ sink = {}
    /\ frames = [t \in threads |-> <<>>]
    /\ last = [op |-> "start"]
    /\ host_calls = 0

Init == InitFor({1})

InitMT == InitFor(1..NumThreads)

-----------------------------------------------------------------------------
\* The operations.

OptValues == {None} \cup {Some(v) : v \in PyValues}
OptCoercers == {None} \cup {Some(f) : f \in Coercers}

\* one call of normalize_renamed_param by running code
Resolve ==
    /\ \E t \in Threads : Running(t)
    /\ \E new_val \in OptValues, old_val \in OptValues,
          coerce \in OptCoercers, names \in ArgNames :
        LET r == normalize_renamed_param(new_val, names[1], old_val, names[2], coerce)
        IN  /\ last' = [op |-> "normalize_renamed_param",
                        new_val |-> new_val, new_arg |-> names[1],
                        old_val |-> old_val, old_arg |-> names[2],
                        coerce |-> coerce, raised |-> r.raised,
                        message |-> r.message, result |-> r.result,
                        applied |-> r.applied]
            /\ IF r.warned = <<>>
               THEN UNCHANGED <<registry, sink>>
               ELSE /\ registry' = WarnRegistry(r.warned[1].category, r.warned[1].message)
                    /\ sink' = WarnSink(r.warned[1].category, r.warned[1].message)
    /\ UNCHANGED <<lists, module_filters, frames, host_calls>>

\* warnings.warn(message, category) by thread t, called from `op`
Warn(t, op, category, message, inputs) ==
    /\ Running(t)
    /\ registry' = WarnRegistry(category, message)
    /\ sink' = WarnSink(category, message)
    /\ last' = [op |-> op, thread |-> t, category |-> category,
                message |-> message, inputs |-> inputs,
                outcome |-> WarnOutcome(category, message),
                raised |-> WarnOutcome(category, message) = "raised"]
    /\ UNCHANGED <<lists, module_filters, frames, host_calls>>

\* deprecation_warning, its arguments drawn from the given sets
deprecation_warning(t, subjects, texts) ==
    \E subject \in subjects, breaking_version \in Versions,
       additional_warn_text \in texts :
        Warn(t, "deprecation_warning", DeprecationWarning,
             DeprecationMessage(subject, breaking_version, additional_warn_text),
             <<subject, breaking_version, additional_warn_text>>)

\* experimental_warning, its arguments drawn from the given sets
experimental_warning(t, subjects, texts) ==
    \E subject \in subjects, additional_warn_text \in texts :
        Warn(t, "experimental_warning", ExperimentalWarning,
             ExperimentalMessage(subject, additional_warn_text),
             <<subject, additional_warn_text>>)

\* the filters a host or a body installs itself
HostFilterItems ==
    {Filter("ignore", DeprecationWarning), Filter("ignore", ExperimentalWarning),
     Filter("always", Warning), Filter("error", Warning)}

\* the host, or a body, calls warnings.filterwarnings itself
HostFilterWarnings(t) ==
    /\ Running(t)
    /\ host_calls < MaxHostCalls
    /\ host_calls' = host_calls + 1
    /\ \E item \in HostFilterItems :
        /\ lists' = [lists EXCEPT ![module_filters] =
                        filterwarnings(@, item.action, item.category)]
        /\ last' = [op |-> "filterwarnings", thread |-> t]
    /\ registry' = {}
    /\ frames' = Touched
    /\ UNCHANGED <<module_filters, sink>>

\* the host, or a body, calls warnings.resetwarnings
HostResetWarnings(t) ==
    /\ Running(t)
    /\ host_calls < MaxHostCalls
    /\ host_calls' = host_calls + 1
    /\ Filters # <<>>
    /\ lists' = [lists EXCEPT ![module_filters] = <<>>]
    /\ registry' = {}
    /\ frames' = Touched
    /\ last' = [op |-> "resetwarnings", thread |-> t]
    /\ UNCHANGED <<module_filters, sink>>

\* the exit paths of a body on which the wrapper releases the scope
Releases(how) == how \in {"return", "raise"}

\* A wrapped target is invoked: the wrapper enters the scope, whose
\* catch_warnings().__enter__ first keeps the list now installed.
Invoke(t, depth) ==
    /\ Running(t)
    /\ Len(frames[t]) < depth
    /\ frames' = [frames EXCEPT ![t] = Append(@,
            [pc |-> "saved", saved |-> module_filters,
             before |-> Filters, dirty |-> FALSE, returned |-> FALSE])]
    /\ last' = [op |-> "invoke", thread |-> t]
    /\ UNCHANGED <<lists, module_filters, registry, sink, host_calls>>

\* faulty variant: the kept list itself stays installed, no copy is made
Mut_CopyFilters_alias(t) ==
    /\ Entering(t, "saved")
    /\ module_filters' = Top(t).saved
    /\ frames' = SetTop(t, [Top(t) EXCEPT !.pc = "copied"])
    /\ lists' = Collect(lists, Top(t).saved, frames')
    /\ registry' = {}
    /\ last' = [op |-> "copy", thread |-> t]
    /\ UNCHANGED <<sink, host_calls>>

\* __enter__, second half: a copy of the kept list is installed
CopyFilters(t) ==
    /\ Entering(t, "saved")
    /\ module_filters' = FreshId
    /\ frames' = SetTop(t, [Top(t) EXCEPT !.pc = "copied"])
    /\ lists' = Collect([lists EXCEPT ![FreshId] = lists[Top(t).saved]],
                        FreshId, frames')
    /\ registry' = {}
    /\ last' = [op |-> "copy", thread |-> t]
    /\ UNCHANGED <<sink, host_calls>>

\* warnings.filterwarnings("ignore", category=ExperimentalWarning), then the
\* body starts
InstallIgnore(t) ==
    /\ Entering(t, "copied")
    /\ lists' = [lists EXCEPT ![module_filters] =
                    filterwarnings(@, "ignore", ExperimentalWarning)]
    /\ frames' = SetTop(t, [Top(t) EXCEPT !.pc = "body"])
    /\ registry' = {}
    /\ last' = [op |-> "ignore", thread |-> t]
    /\ UNCHANGED <<module_filters, sink, host_calls>>

\* faulty variant: the list of before the outermost scope is installed
Mut_Restored_outermost(t) == frames[t][1].saved

\* catch_warnings().__exit__: the list installed again is the one this
\* scope kept on entry
Restored(t) == Top(t).saved

\* the caller's frame, once a wrapped call made from its body has ended
AfterCall(fs) ==
    IF fs = <<>> THEN fs
    ELSE [fs EXCEPT ![Len(fs)] = [@ EXCEPT !.returned = TRUE]]

\* The body ends, by return or by a failure that propagates; where the
\* wrapper releases the scope, catch_warnings().__exit__ installs the kept list.
Exit(t, how) ==
    /\ InBody(t)
    /\ frames' = [frames EXCEPT ![t] = AfterCall(SubSeq(@, 1, Len(@) - 1))]
    /\ IF Releases(how)
       THEN /\ module_filters' = Restored(t)
            /\ lists' = Collect(lists, Restored(t), frames')
            /\ registry' = {}
       ELSE UNCHANGED <<module_filters, lists, registry>>
    /\ last' = [op |-> "exit", thread |-> t, how |-> how,
                before |-> Top(t).before, dirty |-> Top(t).dirty,
                depth |-> Len(frames[t]) - 1]
    /\ UNCHANGED <<sink, host_calls>>

Return(t) == Exit(t, "return")

Raise(t) == Exit(t, "raise")

\* One thread: the scope, the two helpers and the host's own filters.
Next ==
    \/ deprecation_warning(1, {"Foo"}, {None})
    \/ experimental_warning(1, {"Baz"}, {None})
    \/ HostFilterWarnings(1)
    \/ HostResetWarnings(1)
    \/ Invoke(1, MaxDepth)
    \/ CopyFilters(1)
    \/ InstallIgnore(1)
    \/ Return(1)
    \/ Raise(1)

Spec == Init /\ [][Next]_vars

\* One thread, no scope: the resolver and the message of deprecation_warning
\* over all their inputs.
NextCalls ==
    \/ Resolve
    \/ deprecation_warning(1, Subjects, AdditionalTexts)
    \/ HostFilterWarnings(1)
    \/ HostResetWarnings(1)

SpecCalls == Init /\ [][NextCalls]_vars

\* Several threads, each running wrapped invocations.
NextMT ==
    \/ \E t \in Threads : experimental_warning(t, {"Baz"}, {None})
    \/ \E t \in Threads : Invoke(t, MaxDepthMT)
    \/ \E t \in Threads : CopyFilters(t)
    \/ \E t \in Threads : InstallIgnore(t)
    \/ \E t \in Threads : Return(t)
    \/ \E t \in Threads : Raise(t)

SpecMT == InitMT /\ [][NextMT]_vars

-----------------------------------------------------------------------------
\* What the properties below are stated with.

\* sub occurs in the string s
Contains(s, sub) ==
    \E i \in 1..(Len(s) - Len(sub) + 1) : SubSeq(s, i, i + Len(sub) - 1) = sub

Quoted(name) == "\"" \o name \o "\""

\* filter f selects diagnostics of this category
Covers(f, category) == f.category = category \/ f.category = "Warning"

\* the action of the filter that decides for a category: the first one in
\* the list that covers it, "default" when none does
DecidedAction(fl, category) ==
    LET deciding == {i \in 1..Len(fl) :
                        /\ Covers(fl[i], category)
                        /\ \A j \in 1..(i - 1) : ~Covers(fl[j], category)}
    IN  IF deciding = {} THEN "default"
        ELSE fl[CHOOSE i \in deciding : TRUE].action

Without(fl, item) == SelectSeq(fl, LAMBDA f : f # item)

IsResolve == last.op = "normalize_renamed_param"
IsDeprecate == last.op = "deprecation_warning"
IsExperimental == last.op = "experimental_warning"
IsExit == last.op = "exit"

BothPresent == last.new_val # None /\ last.old_val # None

-----------------------------------------------------------------------------
\* C1: whenever normalize_renamed_param is called with new_val and old_val both
\* present (falsy values included), the call raises, its message names old_arg
\* and new_arg, nothing is returned and the coercion is not applied, with or
\* without a coercion function.
C1_ConflictWhenBothPresent ==
    (IsResolve /\ BothPresent) =>
        /\ last.raised
        /\ Contains(last.message, Quoted(last.old_arg))
        /\ Contains(last.message, Quoted(last.new_arg))
        /\ last.result = None
        /\ last.applied = 0

C1_Witness ==
    /\ IsResolve
    /\ last.new_val = Some("0") /\ last.old_val = Some("False")
    /\ last.coerce = Some("negate")
    /\ last.raised
    /\ last.message = "Do not use deprecated \"op\" now that you are using \"solid\"."

\* C2: when new_val and old_val are not both present the call returns: f(old_val)
\* when old_val is present and a coercion f was given, old_val itself when none
\* was given, and new_val as it is (None included, never coerced) when old_val
\* is absent.
C2_ResultMatchesReference ==
    (IsResolve /\ ~BothPresent) =>
        /\ ~last.raised
        /\ last.old_val # None /\ last.coerce = Some("negate") =>
              last.result = Some(IF last.old_val[1] \in {"0", "False"}
                                 THEN "True" ELSE "False")
        /\ last.old_val # None /\ last.coerce = None =>
              last.result = last.old_val
        /\ last.old_val = None =>
              last.result = last.new_val /\ last.applied = 0

C2_Witness ==
    /\ IsResolve
    /\ last.new_val = None /\ last.old_val = Some("0")
    /\ last.coerce = Some("negate")
    /\ last.result = Some("True")

\* C8: deprecation_warning hands the channel one DeprecationWarning whose message
\* is "{subject} is deprecated and will be removed in {breaking_version}.",
\* followed by a space and the additional text when that text is present and
\* not empty.
C8_DeprecationMessage ==
    IsDeprecate =>
        LET subject == last.inputs[1]
            version == last.inputs[2]
            text == last.inputs[3]
            base == subject \o " is deprecated and will be removed in "
                        \o version \o "."
        IN  /\ last.category = "DeprecationWarning"
            /\ text \in {None, Some("")} => last.message = base
            /\ text \notin {None, Some("")} =>
                  last.message = base \o " " \o text[1]
            /\ last.inputs = <<"Foo", "2.0", None>> =>
                  last.message = "Foo is deprecated and will be removed in 2.0."
            /\ last.inputs = <<"Foo", "2.0", Some("Use Bar.")>> =>
                  last.message
                      = "Foo is deprecated and will be removed in 2.0. Use Bar."
            /\ last.outcome = "shown" =>
                  [category |-> "DeprecationWarning", message |-> last.message]
                      \in sink

C8_Witness ==
    /\ IsDeprecate
    /\ last.inputs = <<"Baz", "2.0", Some("")>>
    /\ last.message = "Baz is deprecated and will be removed in 2.0."
    /\ last.outcome = "shown"

\* C9: a call of normalize_renamed_param changes neither the filters nor the
\* registry nor the sink, whether it returns or raises.
C9_ResolveHasNoSideEffect ==
    [][last'.op = "normalize_renamed_param" =>
          UNCHANGED <<lists, module_filters, registry, sink>>]_vars

C9_Witness ==
    /\ IsResolve
    /\ last.new_val = None /\ last.old_val # None /\ ~last.raised
    /\ Filters = <<Filter("always", "Warning")>>
    /\ registry = {}
    /\ sink # {}

-----------------------------------------------------------------------------
\* the thread of the last operation is in a body whose scope nothing has
\* disturbed: no filter was added or removed since the scope was entered
InCleanBody ==
    /\ InBody(last.thread)
    /\ ~Top(last.thread).dirty

Delivered == last.outcome = "shown"

C4_FiltersRestoredOnExit ==
    IsExit => Filters = last.before

C4_Witness ==
    /\ IsExit
    /\ last.how = "raise"
    /\ last.dirty
    /\ last.before = <<Filter("error", "Warning")>>
    /\ Filters = last.before

\* C5: when a wrapped invocation made from the body of another ends, by return
\* or by failure, the filters are those the outer body had before the inner
\* entry, with the outer scope's ignore filter still in front, and an
\* ExperimentalWarning the outer body emits afterwards is still ignored.
C5_InnerExitKeepsOuterScope ==
    /\ (IsExit /\ last.depth >= 1) =>
          /\ Filters = last.before
          /\ ~Top(last.thread).dirty => Head(Filters) = IgnoreExperimental
    /\ (IsExperimental /\ InCleanBody /\ Top(last.thread).returned) =>
          last.outcome = "ignored"

C5_Witness ==
    /\ IsExperimental
    /\ InCleanBody
    /\ Top(last.thread).returned
    /\ Len(frames[last.thread]) = 1
    /\ Top(last.thread).before = <<Filter("always", "Warning")>>
    /\ last.outcome = "ignored"

C7_Original ==
    (IsDeprecate \/ IsExperimental) => ~last.raised

\* C7, amended: the two helpers return normally unless the filter deciding
\* the diagnostic has the action "error"; then, and only then, the diagnostic
\* is raised to the caller.
C7_RaisesOnlyUnderErrorFilter ==
    (IsDeprecate \/ IsExperimental) =>
        (last.raised <=> DecidedAction(Filters, last.category) = "error")

C7_Witness ==
    /\ IsDeprecate
    /\ Filters = <<Filter("ignore", "ExperimentalWarning"), Filter("error", "Warning")>>
    /\ last.raised

-----------------------------------------------------------------------------
AllIdle == \A t \in Threads : frames[t] = <<>>

\* C10, as stated: with the entries and exits of two threads' scopes
\* interleaved, no open scope loses its ignore filter, and once every
\* invocation has exited the filters are those of before any was entered.
C10_Original ==
    /\ \A t \in Threads : InBody(t) =>
          \E i \in 1..Len(Filters) : Filters[i] = IgnoreExperimental
    /\ AllIdle => Filters = FiltersAtStart

====
